---- MODULE Spec2Model ----
(***************************************************************************)
(* TradingView chart capture: the capture-and-persist pipeline of          *)
(* src/main.js (two variants, lines 1-302 and 305-548) and of              *)
(* src/test-local.js, as a state machine.                                  *)
(*                                                                         *)
(* JavaScript values are tagged records; strings are tuples of one-        *)
(* character strings, so that the string operations of the source          *)
(* (replace, match, slice, toLowerCase, template literals) are computed.   *)
(* Every awaited call on the browser or on the platform either returns or  *)
(* rejects; the model draws that outcome with \E.                          *)
(***************************************************************************)
EXTENDS Integers, Sequences, FiniteSets, TLC

VARIABLES
    variant,        \* which pipeline runs: "main1", "main2" or "local"
    input,          \* what Actor.getInput() yields / input.json holds
    pc,             \* position of the single thread of control
    cfg,            \* the destructured configuration (field -> value)
    pending,        \* the step whose exception is propagating, or "none"
    launched,       \* chromium.launch has returned a browser
    calls,          \* every external call issued so far, in order
    logged,         \* log lines of interest written so far
    status,         \* how the run ended: "running", "succeeded", "failed"
    cursor,         \* index of the next timeframe key / of the current indicator
    sub,            \* sub-step inside the login block or inside one indicator
    clock,          \* index of the last instant read from the system clock
    fileName,       \* const fileName
    screenshotPath, \* const screenshotPath
    screenshot,     \* the captured bytes (empty before the capture)
    screenshotUrl,  \* let screenshotUrl
    result,         \* const result, the metadata record
    store,          \* blob store: the (key, bytes) pairs written
    dataset         \* record stream: the records appended, in order

ctlVars == <<pc, pending, cursor, sub, calls>>
runVars == <<cfg, launched, logged, status>>
outVars == <<clock, fileName, screenshotPath, screenshot, screenshotUrl, result,
             store, dataset>>
vars == <<variant, input, ctlVars, runVars, outVars>>

-----------------------------------------------------------------------------
(* JavaScript values *)

Undefined == [t |-> "undefined"]
Null == [t |-> "null"]
Str(s) == [t |-> "string", v |-> s]
Num(n) == [t |-> "number", v |-> n]
Bool(b) == [t |-> "boolean", v |-> b]
List(l) == [t |-> "array", v |-> l]
Obj(f) == [t |-> "object", v |-> f]

\* ToBoolean: what `if (x)`, `a && b` and `a || b` test
Truthy(x) ==
    CASE x.t = "undefined" -> FALSE
      [] x.t = "null" -> FALSE
      [] x.t = "string" -> x.v # <<>>
      [] x.t = "number" -> x.v # 0
      [] x.t = "boolean" -> x.v
      [] OTHER -> TRUE

\* a || b
OrElse(a, b) == IF Truthy(a) THEN a ELSE b

\* obj.k : a missing property reads as undefined
Get(obj, k) == IF k \in DOMAIN obj.v THEN obj.v[k] ELSE Undefined

\* the object literal {} and { k: v }
EmptyObj == Obj(<<>>)
With(obj, k, val) ==
    Obj([j \in DOMAIN obj.v \cup {k} |-> IF j = k THEN val ELSE obj.v[j]])

-----------------------------------------------------------------------------
(* Strings as character tuples *)

Digits == {"0", "1", "2", "3", "4", "5", "6", "7", "8", "9"}
UpperCase == <<"A", "B", "C", "D", "E", "F", "G", "H", "I", "J", "K", "L", "M",
               "N", "O", "P", "Q", "R", "S", "T", "U", "V", "W", "X", "Y", "Z">>
LowerCase == <<"a", "b", "c", "d", "e", "f", "g", "h", "i", "j", "k", "l", "m",
               "n", "o", "p", "q", "r", "s", "t", "u", "v", "w", "x", "y", "z">>
Range(s) == {s[i] : i \in DOMAIN s}
Letters == Range(UpperCase) \cup Range(LowerCase)

\* String.prototype.toLowerCase, one character
LowerChar(c) ==
    IF c \in Range(UpperCase)
    THEN LowerCase[CHOOSE i \in DOMAIN UpperCase : UpperCase[i] = c]
    ELSE c
toLowerCase(s) == [i \in DOMAIN s |-> LowerChar(s[i])]

\* s.replace(/[set]/g, c): every character of the set becomes c
ReplaceAll(s, set, c) == [i \in DOMAIN s |-> IF s[i] \in set THEN c ELSE s[i]]

\* s.slice(0, -n)
DropLast(s, n) == IF Len(s) > n THEN SubSeq(s, 1, Len(s) - n) ELSE <<>>

\* /\d+/ : start and end of the leftmost, longest run of digits (0, 0 if none)
DigitRunStart(s) ==
    IF \E i \in DOMAIN s : s[i] \in Digits
    THEN CHOOSE i \in DOMAIN s :
            /\ s[i] \in Digits
            /\ \A j \in 1..(i - 1) : s[j] \notin Digits
    ELSE 0
DigitRunEnd(s) ==
    IF DigitRunStart(s) = 0 THEN 0
    ELSE CHOOSE e \in DigitRunStart(s)..Len(s) :
            /\ \A j \in DigitRunStart(s)..e : s[j] \in Digits
            /\ (e = Len(s) \/ s[e + 1] \notin Digits)

\* s.match(/\d+/)?.[0] || ''
FirstDigitRun(s) ==
    IF DigitRunStart(s) = 0 THEN <<>>
    ELSE SubSeq(s, DigitRunStart(s), DigitRunEnd(s))

\* s.replace(/\d+/, '') : the first run of digits is removed, once
RemoveFirstDigitRun(s) ==
    IF DigitRunStart(s) = 0 THEN s
    ELSE SubSeq(s, 1, DigitRunStart(s) - 1) \o SubSeq(s, DigitRunEnd(s) + 1, Len(s))

-----------------------------------------------------------------------------
(* Configuration Resolver: the destructuring with defaults *)

MainVariants == {"main1", "main2"}

\* the left-hand side of the destructuring: the fields each variant reads
CommonFields == {"symbol", "interval", "indicators", "theme", "width", "height",
                 "hideUi", "outputFileName"}
Fields(v) ==
    IF v = "main1" THEN CommonFields \cup {"loginUsername", "loginPassword"}
    ELSE CommonFields \cup {"login"}

\* the default written after `=` for each field
Defaults ==
    [k \in CommonFields \cup {"loginUsername", "loginPassword", "login"} |->
        CASE k = "symbol" ->
                Str(<<"B", "I", "N", "A", "N", "C", "E", ":",
                      "B", "T", "C", "U", "S", "D", "T">>)
          [] k = "interval" -> Str(<<"1", "h">>)
          [] k = "indicators" ->
                List(<<Str(<<"R", "S", "I">>),
                       Str(<<"E", "M", "A", " ", "2", "0">>),
                       Str(<<"E", "M", "A", " ", "5", "0">>)>>)
          [] k = "theme" -> Str(<<"d", "a", "r", "k">>)
          [] k = "width" -> Num(1280)
          [] k = "height" -> Num(720)
          [] k = "hideUi" -> Bool(TRUE)
          [] OTHER -> Null]

\* a mutation of Default: `val || dflt`, which replaces every falsy value
DefaultLoose(val, dflt) == IF Truthy(val) THEN val ELSE dflt

\* `field = dflt` in a destructuring pattern: the default replaces undefined only
Default(val, dflt) == IF val.t = "undefined" THEN dflt ELSE val

\* destructuring null or undefined throws a TypeError
CanDestructure(in) == in.t \notin {"null", "undefined"}

\* const { symbol = ..., ... } = input
Destructure(v, in) == [k \in Fields(v) |-> Default(Get(in, k), Defaults[k])]

\* the condition guarding the login block
LoginRequested(v, c) ==
    IF v = "main1"
    THEN Truthy(c["loginUsername"]) /\ Truthy(c["loginPassword"])
    ELSE /\ Truthy(c["login"])
         /\ Truthy(Get(c["login"], "username"))
         /\ Truthy(Get(c["login"], "password"))

-----------------------------------------------------------------------------
(* Timeframe selection: the keys pressed for an interval string *)

\* const intervalKey = interval.toLowerCase().replace(/\d+/, '')
intervalKey(interval) == RemoveFirstDigitRun(toLowerCase(interval))

\* const intervalNumber = interval.match(/\d+/)?.[0] || ''
intervalNumber(interval) == FirstDigitRun(interval)

\* a mutation of TimeframeKeys: the key name is not lower-cased
TimeframeKeysNoLower(interval) ==
    [i \in 1..Len(intervalNumber(interval)) |-> <<intervalNumber(interval)[i]>>]
        \o (IF RemoveFirstDigitRun(interval) # <<>>
            THEN <<RemoveFirstDigitRun(interval)>> ELSE <<>>)

\* the presses of the step, in order: one per digit of intervalNumber, then
\* intervalKey as a single key name if it is not empty
TimeframeKeys(interval) ==
    [i \in 1..Len(intervalNumber(interval)) |-> <<intervalNumber(interval)[i]>>]
        \o (IF intervalKey(interval) # <<>> THEN <<intervalKey(interval)>> ELSE <<>>)

-----------------------------------------------------------------------------
(* Persister: output name, encodings, metadata record *)

\* new Date().toISOString().replace(/[:.]/g, '-').slice(0, -5)
timestamp(iso) == DropLast(ReplaceAll(iso, {":", "."}, "-"), 5)

\* symbol.replace(/[^a-zA-Z0-9]/g, '_')
safeSymbol(symbol) ==
    [i \in DOMAIN symbol |->
        IF symbol[i] \in Letters \cup Digits THEN symbol[i] ELSE "_"]

\* a mutation of FileName: `outputFileName ?? ...`, which keeps an empty name
FileNameStrict(c, iso) ==
    IF c["outputFileName"].t \notin {"null", "undefined"}
    THEN c["outputFileName"]
    ELSE Str(<<"c", "h", "a", "r", "t", "_">> \o safeSymbol(c["symbol"].v)
             \o <<"_">> \o timestamp(iso))

\* const fileName = outputFileName || `chart_${safeSymbol}_${timestamp}`
FileName(c, iso) ==
    OrElse(c["outputFileName"],
           Str(<<"c", "h", "a", "r", "t", "_">> \o safeSymbol(c["symbol"].v)
               \o <<"_">> \o timestamp(iso)))

\* __dirname of the local test script (any directory; one is fixed here)
Dirname == <<"/", "a", "p", "p">>

\* const screenshotPath = `${fileName}.png`   (join(__dirname, ...) locally)
ScreenshotPath(v, name) ==
    IF v = "local"
    THEN Str(Dirname \o <<"/">> \o name.v \o <<".", "p", "n", "g">>)
    ELSE Str(name.v \o <<".", "p", "n", "g">>)

\* the base64 alphabet
Base64Alphabet ==
    UpperCase \o LowerCase
        \o <<"0", "1", "2", "3", "4", "5", "6", "7", "8", "9", "+", "/">>
B64(n) == Base64Alphabet[n + 1]

\* a mutation of Base64: the same digits without the "=" padding
RECURSIVE Base64Unpadded(_)
Base64Unpadded(b) ==
    IF Len(b) = 0 THEN <<>>
    ELSE IF Len(b) = 1
    THEN <<B64(b[1] \div 4), B64((b[1] % 4) * 16)>>
    ELSE IF Len(b) = 2
    THEN <<B64(b[1] \div 4), B64((b[1] % 4) * 16 + b[2] \div 16),
           B64((b[2] % 16) * 4)>>
    ELSE <<B64(b[1] \div 4), B64((b[1] % 4) * 16 + b[2] \div 16),
           B64((b[2] % 16) * 4 + b[3] \div 64), B64(b[3] % 64)>>
         \o Base64Unpadded(SubSeq(b, 4, Len(b)))

\* Buffer.prototype.toString('base64')
RECURSIVE Base64(_)
Base64(b) ==
    IF Len(b) = 0 THEN <<>>
    ELSE IF Len(b) = 1
    THEN <<B64(b[1] \div 4), B64((b[1] % 4) * 16), "=", "=">>
    ELSE IF Len(b) = 2
    THEN <<B64(b[1] \div 4), B64((b[1] % 4) * 16 + b[2] \div 16),
           B64((b[2] % 16) * 4), "=">>
    ELSE <<B64(b[1] \div 4), B64((b[1] % 4) * 16 + b[2] \div 16),
           B64((b[2] % 16) * 4 + b[3] \div 64), B64(b[3] % 64)>>
         \o Base64(SubSeq(b, 4, Len(b)))

\* const screenshotDataUrl = `data:image/png;base64,${screenshotBase64}`
DataUrl(b64) ==
    <<"d", "a", "t", "a", ":", "i", "m", "a", "g", "e", "/", "p", "n", "g", ";",
      "b", "a", "s", "e", "6", "4", ",">> \o b64

\* a number inside a template literal: its decimal digits
DigitChars == <<"0", "1", "2", "3", "4", "5", "6", "7", "8", "9">>
RECURSIVE Decimal(_)
Decimal(n) ==
    IF n < 10 THEN <<DigitChars[n + 1]>>
    ELSE Decimal(n \div 10) \o <<DigitChars[(n % 10) + 1]>>

\* `[Base64 data too large: ${screenshotBase64.length} chars]`
Base64Placeholder(b64) ==
    Str(<<"[", "B", "a", "s", "e", "6", "4", " ", "d", "a", "t", "a", " ", "t",
          "o", "o", " ", "l", "a", "r", "g", "e", ":", " ">>
        \o Decimal(Len(b64)) \o <<" ", "c", "h", "a", "r", "s", "]">>)

\* `[Data URL too large: ${screenshotDataUrl.length} chars]`
DataUrlPlaceholder(url) ==
    Str(<<"[", "D", "a", "t", "a", " ", "U", "R", "L", " ", "t", "o", "o", " ",
          "l", "a", "r", "g", "e", ":", " ">>
        \o Decimal(Len(url)) \o <<" ", "c", "h", "a", "r", "s", "]">>)

\* const result = { symbol, interval, ..., timestamp: new Date().toISOString() }
Result(c, bytes, url, path, iso) ==
    [symbol |-> c["symbol"], interval |-> c["interval"],
     indicators |-> c["indicators"], theme |-> c["theme"],
     width |-> c["width"], height |-> c["height"],
     screenshotBase64 |-> Str(Base64(bytes)),
     screenshotDataUrl |-> Str(DataUrl(Base64(bytes))),
     screenshotUrl |-> url, screenshotKey |-> path, timestamp |-> Str(iso)]

\* const resultWithoutBase64 = { ...result, screenshotBase64: ..., screenshotDataUrl: ... }
ResultWithoutBase64(r) ==
    [r EXCEPT !.screenshotBase64 = Base64Placeholder(r.screenshotBase64.v),
              !.screenshotDataUrl = DataUrlPlaceholder(r.screenshotDataUrl.v)]

-----------------------------------------------------------------------------
(* The environment: inputs, clock readings, captured bytes *)

Variants == {"main1", "main2", "local"}

Light == Str(<<"l", "i", "g", "h", "t">>)
SymbolOptions == {Undefined, Str(<<"a", ":", "_", "Z", "9">>)}
IntervalOptions == {Undefined, Str(<<"1", "5", "M">>)}
IndicatorOptions ==
    {Undefined, List(<<>>), List(<<Str(<<"M", "A", "C", "D">>)>>)}
ThemeOptions == {Undefined, Light}
HideUiOptions == {Undefined, Bool(FALSE)}
NameOptions == {Undefined, Str(<<>>), Str(<<"o", "u", "t">>)}
UserOptions == {Undefined, Str(<<"u">>)}
PasswordOptions == {Undefined, Str(<<>>), Str(<<"p">>)}

\* { k: val } added to an object unless val is undefined (an absent field)
Field(obj, k, val) == IF val.t = "undefined" THEN obj ELSE With(obj, k, val)

\* the credentials as each variant's input carries them
Credentials(v, obj, user, pass) ==
    IF v = "main1"
    THEN Field(Field(obj, "loginUsername", user), "loginPassword", pass)
    ELSE IF user.t = "undefined" /\ pass.t = "undefined" THEN obj
    ELSE With(obj, "login", Field(Field(EmptyObj, "username", user), "password", pass))

\* an input that supplies every field
FullInput(v) ==
    Credentials(v,
        Field(Field(Field(Field(Field(Field(EmptyObj,
            "symbol", Str(<<"a", ":", "_", "Z", "9">>)),
            "interval", Str(<<"1", "5", "M">>)),
            "indicators", List(<<Str(<<"M", "A", "C", "D">>)>>)),
            "theme", Light),
            "hideUi", Bool(TRUE)),
            "outputFileName", Str(<<"o", "u", "t">>)),
        Str(<<"u">>), Str(<<"p">>))

\* the inputs of the runs explored: no input at all (null), the empty
\* mapping, the mappings that supply one field or the credentials, and one
\* that supplies everything
Inputs(v) ==
    {Null, FullInput(v)}
    \cup {Field(EmptyObj, "symbol", sy) : sy \in SymbolOptions}
    \cup {Field(EmptyObj, "interval", iv) : iv \in IntervalOptions}
    \cup {Field(EmptyObj, "indicators", ind) : ind \in IndicatorOptions}
    \cup {Field(EmptyObj, "theme", th) : th \in ThemeOptions}
    \cup {Field(EmptyObj, "hideUi", hu) : hu \in HideUiOptions}
    \cup {Field(EmptyObj, "outputFileName", nm) : nm \in NameOptions}
    \cup {Credentials(v, EmptyObj, us, pw) : us \in UserOptions, pw \in PasswordOptions}

\* new Date().toISOString() at two instants, in time order
Timestamps ==
    <<<<"2", "0", "2", "4", "-", "0", "1", "-", "0", "1", "T", "1", "2", ":",
        "0", "0", ":", "0", "0", ".", "0", "0", "0", "Z">>,
      <<"2", "0", "2", "4", "-", "0", "1", "-", "0", "1", "T", "1", "2", ":",
        "0", "0", ":", "0", "7", ".", "2", "5", "0", "Z">>>>

\* what page.screenshot may return
Screenshots == {<<137, 80>>, <<0, 255, 80>>, <<137, 80, 78, 71>>}

\* Actor.getPublicUrl(key): the store's address followed by the key
PublicUrl(key) == Str(<<"k", "v", "/">> \o key.v)

-----------------------------------------------------------------------------
(* The pipeline *)

\* at most this many calls reject in one run
MaxRejections == 2

\* the calls that have rejected so far
Rejections == Cardinality({i \in DOMAIN calls : calls[i].res = "threw"})

\* an awaited call returns or rejects; page.$ may also return null
Outcomes == IF Rejections < MaxRejections THEN {"ok", "threw"} ELSE {"ok"}
Lookups == Outcomes \cup {"null"}

\* the state before the first statement, whatever the input is
Start ==
    /\ variant \in Variants
    /\ pc = IF variant = "local" THEN "destructure" ELSE "init"
    /\ cfg = <<>>
    /\ pending = "none"
    /\ launched = FALSE
    /\ calls = <<>>
    /\ logged = {}
    /\ status = "running"
    /\ cursor = 1
    /\ sub = 1
    /\ clock = 1
    /\ fileName = Undefined
    /\ screenshotPath = Undefined
    /\ screenshot = <<>>
    /\ screenshotUrl = Undefined
    /\ result = Undefined
    /\ store = {}
    /\ dataset = <<>>

Init == Start /\ input \in Inputs(variant)

\* one external call: its argument, how it ended, and for the calls of the
\* indicator loop the position of the loop in the list
CallAbout(op, about, arg, res) ==
    calls' = Append(calls, [op |-> op, about |-> about, arg |-> arg, res |-> res])
Call(op, arg, res) == CallAbout(op, 0, arg, res)

\* control moves on, nothing thrown
Goto(next) == pc' = next /\ UNCHANGED pending

\* an exception leaves the inner try block: main.js has only the finally
\* there, test-local.js a catch that logs and rethrows before it
ThrowInner(step) ==
    /\ pending' = step
    /\ pc' = IF variant = "local" THEN "catch" ELSE "close"

\* an exception thrown before the inner try block: in main.js the outer catch
\* takes it; in test-local.js nothing does and the process dies
ThrowOuter(step) ==
    /\ pending' = step
    /\ IF variant = "local"
       THEN pc' = "done" /\ status' = "failed"
       ELSE pc' = "outerCatch" /\ UNCHANGED status

\* await Actor.init(), before the outer try
ActorInit ==
    /\ pc = "init"
    /\ \E res \in Outcomes :
        /\ Call("Actor.init", Undefined, res)
        /\ IF res = "ok"
           THEN Goto("getInput") /\ UNCHANGED status
           ELSE pending' = "Actor.init" /\ pc' = "done" /\ status' = "failed"
    /\ UNCHANGED <<variant, input, cursor, sub, cfg, launched, logged, outVars>>

\* const input = await Actor.getInput()
GetInput ==
    /\ pc = "getInput"
    /\ \E res \in Outcomes :
        /\ Call("Actor.getInput", Undefined, res)
        /\ IF res = "ok" THEN Goto("destructure") /\ UNCHANGED status
           ELSE ThrowOuter("Actor.getInput")
    /\ UNCHANGED <<variant, input, cursor, sub, cfg, launched, logged, outVars>>

\* const { symbol = ..., ... } = input
ResolveConfiguration ==
    /\ pc = "destructure"
    /\ IF CanDestructure(input)
       THEN cfg' = Destructure(variant, input) /\ Goto("launch") /\ UNCHANGED status
       ELSE ThrowOuter("destructure") /\ UNCHANGED cfg
    /\ UNCHANGED <<variant, input, cursor, sub, calls, launched, logged, outVars>>

\* const browser = await chromium.launch(...)
Launch ==
    /\ pc = "launch"
    /\ \E res \in Outcomes :
        /\ Call("chromium.launch", Undefined, res)
        /\ IF res = "ok"
           THEN launched' = TRUE /\ Goto("newContext") /\ UNCHANGED status
           ELSE ThrowOuter("chromium.launch") /\ UNCHANGED launched
    /\ UNCHANGED <<variant, input, cursor, sub, cfg, logged, outVars>>

\* const context = await browser.newContext(...), outside the inner try
NewContext ==
    /\ pc = "newContext"
    /\ \E res \in Outcomes :
        /\ Call("browser.newContext", Undefined, res)
        /\ IF res = "ok" THEN Goto("newPage") /\ UNCHANGED status
           ELSE ThrowOuter("browser.newContext")
    /\ UNCHANGED <<variant, input, cursor, sub, cfg, launched, logged, outVars>>

\* const page = await context.newPage(), outside the inner try
NewPage ==
    /\ pc = "newPage"
    /\ \E res \in Outcomes :
        /\ Call("context.newPage", Undefined, res)
        /\ IF res = "ok" THEN Goto("goto") /\ UNCHANGED status
           ELSE ThrowOuter("context.newPage")
    /\ UNCHANGED <<variant, input, cursor, sub, cfg, launched, logged, outVars>>

\* a mutation of NavigateFailed: the rejection is caught and only logged
NavigateFailedSwallowed == Goto("waitReady")

\* page.goto is the first statement of the inner try and nothing catches its
\* rejection there
NavigateFailed == ThrowInner("page.goto")

\* await page.goto(chartUrl, ...), first statement of the inner try
Navigate ==
    /\ pc = "goto"
    /\ \E res \in Outcomes :
        /\ Call("page.goto", cfg["symbol"], res)
        /\ IF res = "ok" THEN Goto("waitReady") ELSE NavigateFailed
    /\ UNCHANGED <<variant, input, cursor, sub, runVars, outVars>>

\* await page.waitForSelector(marker, { timeout: 30000 }): main.js lines 58-63
\* catch the timeout and go on to the 5 s settle wait; lines 360 and
\* test-local.js 84 let it propagate
WaitReady ==
    /\ pc = "waitReady"
    /\ \E res \in Outcomes :
        /\ Call("page.waitForSelector", Undefined, res)
        /\ IF variant = "main1" THEN Goto("settle1")
           ELSE IF res = "ok" THEN Goto("login")
           ELSE ThrowInner("page.waitForSelector")
    /\ UNCHANGED <<variant, input, cursor, sub, runVars, outVars>>

\* a mutation of AfterSettle: the indicator loop moved in front of the login
AfterSettleShuffled(at) ==
    CASE at = "settle1" -> "indicators"
      [] at = "settle2" -> "hideUi"
      [] at = "settle3" -> "login"

\* the step after each unguarded page.waitForTimeout
AfterSettle(at) ==
    CASE at = "settle1" -> "login"
      [] at = "settle2" -> "indicators"
      [] at = "settle3" -> "hideUi"

\* the milliseconds each of them waits (lines 66, 137, 164)
SettleMs(at) ==
    CASE at = "settle1" -> Num(5000)
      [] at = "settle2" -> Num(2000)
      [] at = "settle3" -> Num(3000)

\* await page.waitForTimeout(...) outside every try/catch (lines 66, 137, 164)
Settle ==
    /\ pc \in {"settle1", "settle2", "settle3"}
    /\ \E res \in Outcomes :
        /\ Call("page.waitForTimeout", SettleMs(pc), res)
        /\ IF res = "ok" THEN Goto(AfterSettle(pc)) ELSE ThrowInner(pc)
    /\ UNCHANGED <<variant, input, cursor, sub, runVars, outVars>>

\* the credentials the login block fills in
Username(v, c) == IF v = "main1" THEN c["loginUsername"] ELSE Get(c["login"], "username")
Password(v, c) == IF v = "main1" THEN c["loginPassword"] ELSE Get(c["login"], "password")

\* the calls of the login block, in the order of the source
LoginSteps ==
    <<"signInLookup", "signInClick", "usernameWait", "usernameFill",
      "passwordWait", "passwordFill", "submitLookup", "submitClick">>

\* what a login call is given
LoginArg(step) ==
    CASE step = "usernameFill" -> Username(variant, cfg)
      [] step = "passwordFill" -> Password(variant, cfg)
      [] OTHER -> Undefined

\* a mutation of LoginGoesOn: the block goes on whatever the call gave
LoginGoesOnAnyway(res) == sub < Len(LoginSteps)

\* the login block proceeds to its next call
LoginGoesOn(res) == res = "ok" /\ sub < Len(LoginSteps)

\* if (loginUsername && loginPassword) { try { ... } catch { warn } }: one call
\* of the block (with the fixed delay that follows it); page.$ may also
\* return null, and the first lookup turns a rejection into null
Login ==
    /\ pc = "login"
    /\ IF LoginRequested(variant, cfg)
       THEN \E res \in IF LoginSteps[sub] \in {"signInLookup", "submitLookup"}
                       THEN Lookups ELSE Outcomes :
                /\ Call(LoginSteps[sub], LoginArg(LoginSteps[sub]), res)
                /\ IF LoginGoesOn(res)
                   THEN sub' = sub + 1 /\ Goto("login")
                   ELSE sub' = 1 /\ Goto("theme")
       ELSE Goto("theme") /\ UNCHANGED <<sub, calls>>
    /\ UNCHANGED <<variant, input, cursor, runVars, outVars>>

\* if (theme === 'light') { try { press('Alt+t'); wait } catch { warn } }
Theme ==
    /\ pc = "theme"
    /\ IF cfg["theme"] = Light
       THEN \E res \in Outcomes :
                Call("theme.press", Str(<<"A", "l", "t", "+", "t">>), res)
       ELSE UNCHANGED calls
    /\ Goto("timeframe")
    /\ UNCHANGED <<variant, input, cursor, sub, runVars, outVars>>

\* try { ...press each digit, press intervalKey... } catch { warn }: one press
\* (with its delay); a rejected press abandons the remaining ones, and
\* interval.toLowerCase() on a non-string throws inside the same try
Timeframe ==
    /\ pc = "timeframe"
    /\ IF cfg["interval"].t = "string" /\ cursor <= Len(TimeframeKeys(cfg["interval"].v))
       THEN \E res \in Outcomes :
                /\ Call("timeframe.press", Str(TimeframeKeys(cfg["interval"].v)[cursor]), res)
                /\ IF res = "ok" /\ cursor < Len(TimeframeKeys(cfg["interval"].v))
                   THEN cursor' = cursor + 1 /\ Goto("timeframe")
                   ELSE cursor' = 1 /\ Goto("settle2")
       ELSE cursor' = 1 /\ Goto("settle2") /\ UNCHANGED calls
    /\ UNCHANGED <<variant, input, sub, runVars, outVars>>

\* what `for (const indicator of indicators)` iterates over
Iterable(x) == x.t \in {"array", "string"}
Elements(x) == IF x.t = "array" THEN x.v ELSE [i \in DOMAIN x.v |-> Str(<<x.v[i]>>)]

\* the calls made for one indicator, in the order of the source
IndicatorSteps == <<"indicator.open", "indicator.type", "indicator.accept">>

\* what an indicator call is given
IndicatorArg(step, indicator) ==
    CASE step = "indicator.open" -> Str(<<"S", "h", "i", "f", "t", "+", "I">>)
      [] step = "indicator.type" -> indicator
      [] step = "indicator.accept" -> Str(<<"E", "n", "t", "e", "r">>)

\* a mutation of NextIndicator: one try around the whole loop, so that the
\* first indicator to fail ends it
NextIndicatorStop(n, res) ==
    /\ sub' = 1
    /\ IF cursor < n /\ res = "ok"
       THEN cursor' = cursor + 1 /\ Goto("indicators")
       ELSE cursor' = 1 /\ Goto("settle3")

\* the catch is inside the loop body: whether the indicator was added or
\* failed, the loop moves to the next one, and ends after the last one
NextIndicator(n, res) ==
    /\ sub' = 1
    /\ IF cursor < n
       THEN cursor' = cursor + 1 /\ Goto("indicators")
       ELSE cursor' = 1 /\ Goto("settle3")

\* a mutation of IndicatorGoesOn: each of the three calls has a catch of its own
IndicatorGoesOnAnyway(res) == sub < Len(IndicatorSteps)

\* the body of one indicator goes on to its next call
IndicatorGoesOn(res) == res = "ok" /\ sub < Len(IndicatorSteps)

\* for (const indicator of indicators) { try { open; type; accept } catch { warn } }:
\* one call (with its delay); indicators.length on null throws outside any try
Indicators ==
    /\ pc = "indicators"
    /\ IF ~Iterable(cfg["indicators"])
       THEN ThrowInner("indicators") /\ UNCHANGED <<cursor, sub, calls>>
       ELSE IF cursor > Len(Elements(cfg["indicators"]))
       THEN Goto("settle3") /\ UNCHANGED <<cursor, sub, calls>>
       ELSE \E res \in Outcomes :
                /\ CallAbout(IndicatorSteps[sub], cursor,
                             IndicatorArg(IndicatorSteps[sub],
                                          Elements(cfg["indicators"])[cursor]), res)
                /\ IF IndicatorGoesOn(res)
                   THEN sub' = sub + 1 /\ cursor' = cursor /\ Goto("indicators")
                   ELSE NextIndicator(Len(Elements(cfg["indicators"])), res)
    /\ UNCHANGED <<variant, input, runVars, outVars>>

\* a mutation of AfterHideUi: the rejection of page.evaluate is not caught
AfterHideUiUncaught(res) ==
    IF res = "ok" THEN Goto("deriveName") ELSE ThrowInner("page.evaluate")

\* catch (error) { Actor.log.warning('Failed to hide some UI elements') }:
\* whatever page.evaluate did, the screenshot comes next
AfterHideUi(res) == Goto("deriveName")

\* if (hideUi) { try { page.evaluate(...); wait } catch { warn } }
HideUi ==
    /\ pc = "hideUi"
    /\ IF Truthy(cfg["hideUi"])
       THEN \E res \in Outcomes :
                Call("page.evaluate", Undefined, res) /\ AfterHideUi(res)
       ELSE Goto("deriveName") /\ UNCHANGED calls
    /\ UNCHANGED <<variant, input, cursor, sub, runVars, outVars>>

\* lines 207-210: the clock is read, then symbol.replace (a TypeError on a
\* symbol that is no string), fileName and screenshotPath
DeriveName ==
    /\ pc = "deriveName"
    /\ \E t \in clock..Len(Timestamps) :
        /\ clock' = t
        /\ IF cfg["symbol"].t = "string"
           THEN /\ fileName' = FileName(cfg, Timestamps[t])
                /\ screenshotPath' = ScreenshotPath(variant, fileName')
                /\ Goto("screenshot")
           ELSE ThrowInner("symbol.replace") /\ UNCHANGED <<fileName, screenshotPath>>
    /\ UNCHANGED <<variant, input, cursor, sub, calls, runVars, screenshot,
                   screenshotUrl, result, store, dataset>>

\* the step a successful capture leads to
AfterScreenshot == IF variant = "local" THEN "writeResult" ELSE "setValue"

\* a mutation of ScreenshotFailed: the rejection is logged and not rethrown
ScreenshotFailedSwallowed == Goto(AfterScreenshot)

\* catch (error) { Actor.log.exception(...); throw error } (lines 219-222);
\* lines 506 and test-local.js 212 have no try around the call
ScreenshotFailed == ThrowInner("page.screenshot")

\* screenshot = await page.screenshot({ type: 'png', fullPage: false }); a
\* rejection is rethrown; test-local.js passes `path`, so the file is written
Screenshot ==
    /\ pc = "screenshot"
    /\ \E res \in Outcomes :
        /\ Call("page.screenshot", Undefined, res)
        /\ IF res = "ok"
           THEN /\ \E bytes \in Screenshots :
                    /\ screenshot' = bytes
                    /\ store' = IF variant = "local"
                                THEN store \cup {<<screenshotPath, bytes>>}
                                ELSE store
                /\ Goto(AfterScreenshot)
           ELSE ScreenshotFailed /\ UNCHANGED <<screenshot, store>>
    /\ UNCHANGED <<variant, input, cursor, sub, runVars, clock, fileName,
                   screenshotPath, screenshotUrl, result, dataset>>

\* a rejected platform call is swallowed at its call site
Swallowed(v) == v = "main1"

\* await Actor.setValue(screenshotPath, screenshot, ...): lines 236-241 catch
\* a rejection, line 516 does not
SetValue ==
    /\ pc = "setValue"
    /\ \E res \in Outcomes :
        /\ Call("Actor.setValue", screenshotPath, res)
        /\ store' = IF res = "ok" THEN store \cup {<<screenshotPath, screenshot>>}
                    ELSE store
        /\ IF res = "ok" \/ Swallowed(variant) THEN Goto("getPublicUrl")
           ELSE ThrowInner("Actor.setValue")
    /\ UNCHANGED <<variant, input, cursor, sub, runVars, clock, fileName,
                   screenshotPath, screenshot, screenshotUrl, result, dataset>>

\* screenshotUrl = await Actor.getPublicUrl(screenshotPath) (lines 244-250
\* keep '' on a rejection, line 529 lets it propagate), then the record is
\* built with a second reading of the clock
GetPublicUrl ==
    /\ pc = "getPublicUrl"
    /\ \E res \in Outcomes :
        /\ Call("Actor.getPublicUrl", screenshotPath, res)
        /\ IF res = "ok" \/ Swallowed(variant)
           THEN \E t \in clock..Len(Timestamps) :
                    /\ clock' = t
                    /\ screenshotUrl' = IF res = "ok" THEN PublicUrl(screenshotPath)
                                        ELSE Str(<<>>)
                    /\ result' = Result(cfg, screenshot, screenshotUrl',
                                        screenshotPath, Timestamps[t])
                    /\ Goto("pushData")
           ELSE /\ ThrowInner("Actor.getPublicUrl")
                /\ UNCHANGED <<clock, screenshotUrl, result>>
    /\ UNCHANGED <<variant, input, cursor, sub, runVars, fileName,
                   screenshotPath, screenshot, store, dataset>>

\* a mutation of Appended: a rejected pushData has stored its record
AppendedAnyway(ds, rec, res) == Append(ds, rec)

\* the record stream after pushData(rec): a rejected call appends nothing
Appended(ds, rec, res) == IF res = "ok" THEN Append(ds, rec) ELSE ds

\* where a rejected first pushData leads: the fallback of lines 274-288
AfterPushFailed == IF Swallowed(variant) THEN "pushFallback" ELSE "rethrow"

\* await Actor.pushData(result)
PushData ==
    /\ pc = "pushData"
    /\ \E res \in Outcomes :
        /\ Call("Actor.pushData", Obj(result), res)
        /\ dataset' = Appended(dataset, result, res)
        /\ IF res = "ok" THEN Goto("close")
           ELSE IF AfterPushFailed = "pushFallback" THEN Goto("pushFallback")
           ELSE ThrowInner("Actor.pushData")
    /\ UNCHANGED <<variant, input, cursor, sub, runVars, clock, fileName,
                   screenshotPath, screenshot, screenshotUrl, result, store>>

\* await Actor.pushData(resultWithoutBase64); a second rejection is rethrown
PushFallback ==
    /\ pc = "pushFallback"
    /\ \E res \in Outcomes :
        /\ Call("Actor.pushData", Obj(ResultWithoutBase64(result)), res)
        /\ dataset' = Appended(dataset, ResultWithoutBase64(result), res)
        /\ IF res = "ok" THEN Goto("close") ELSE ThrowInner("Actor.pushData")
    /\ UNCHANGED <<variant, input, cursor, sub, runVars, clock, fileName,
                   screenshotPath, screenshot, screenshotUrl, result, store>>

\* s.substring(0, n)
Substring(s, n) == IF Len(s) > n THEN SubSeq(s, 1, n) ELSE s

\* test-local.js lines 225-236: the record written to result.json
LocalResult(c, bytes, path, iso) ==
    [symbol |-> c["symbol"], interval |-> c["interval"],
     indicators |-> c["indicators"], theme |-> c["theme"],
     width |-> c["width"], height |-> c["height"],
     screenshotBase64 |-> Str(Substring(Base64(bytes), 100) \o <<".", ".", ".">>),
     screenshotDataUrl |->
        Str(Substring(DataUrl(Base64(bytes)), 100) \o <<".", ".", ".">>),
     screenshotPath |-> path, timestamp |-> Str(iso)]

\* test-local.js lines 225-239: the record is built and result.json written
WriteResult ==
    /\ pc = "writeResult"
    /\ \E t \in clock..Len(Timestamps) :
        /\ clock' = t
        /\ result' = LocalResult(cfg, screenshot, screenshotPath, Timestamps[t])
        /\ \E res \in Outcomes :
            /\ Call("writeFileSync", Obj(result'), res)
            /\ dataset' = IF res = "ok" THEN <<result'>> ELSE dataset
            /\ IF res = "ok" THEN Goto("keepOpen") ELSE ThrowInner("writeFileSync")
    /\ UNCHANGED <<variant, input, cursor, sub, runVars, fileName,
                   screenshotPath, screenshot, screenshotUrl, store>>

\* test-local.js line 251: await page.waitForTimeout(5000)
KeepOpen ==
    /\ pc = "keepOpen"
    /\ \E res \in Outcomes :
        /\ Call("page.waitForTimeout", Num(5000), res)
        /\ IF res = "ok" THEN Goto("close") ELSE ThrowInner("keepOpen")
    /\ UNCHANGED <<variant, input, cursor, sub, runVars, outVars>>

\* test-local.js lines 253-255: catch (error) { log.exception; throw error }
LocalCatch ==
    /\ pc = "catch"
    /\ logged' = logged \cup {"Failed to capture chart"}
    /\ Goto("close")
    /\ UNCHANGED <<variant, input, cursor, sub, calls, cfg, launched, status, outVars>>

\* finally { await browser.close() }. main.js: an exception in flight, or one
\* thrown by close itself, goes to the outer catch, otherwise line 295 follows.
\* test-local.js: line 258 logs the completion unless close itself threw, and
\* the async function ends, rejected if an exception is in flight
CloseBrowser ==
    /\ pc = "close"
    /\ \E res \in Outcomes :
        /\ Call("browser.close", Undefined, res)
        /\ pending' = IF res = "ok" THEN pending ELSE "browser.close"
        /\ IF variant = "local"
           THEN /\ pc' = "done"
                /\ status' = IF pending' = "none" THEN "succeeded" ELSE "failed"
                /\ logged' = IF res = "ok"
                             THEN logged \cup {"Chart capture completed successfully"}
                             ELSE logged
           ELSE /\ pc' = IF pending' = "none" THEN "completed" ELSE "outerCatch"
                /\ UNCHANGED <<status, logged>>
    /\ UNCHANGED <<variant, input, cursor, sub, cfg, launched, outVars>>

\* line 295: Actor.log.info('Chart capture completed successfully')
Completed ==
    /\ pc = "completed"
    /\ logged' = logged \cup {"Chart capture completed successfully"}
    /\ Goto("exit")
    /\ UNCHANGED <<variant, input, cursor, sub, calls, cfg, launched, status, outVars>>

\* lines 297-299: catch (error) { Actor.log.exception(...); throw error }
OuterCatch ==
    /\ pc = "outerCatch"
    /\ logged' = logged \cup {"Failed to capture chart"}
    /\ Goto("exit")
    /\ UNCHANGED <<variant, input, cursor, sub, calls, cfg, launched, status, outVars>>

\* how the run ends once Actor.exit() has done its work: the SDK's exit ends
\* the process with its exitCode option, 0 unless one is given, so a rethrown
\* error still in flight never reaches the host
StatusAfterExit(inFlight) == "succeeded"

\* finally { await Actor.exit() }: the process ends inside the call, or the
\* call rejects and that rejection is what leaves the module
ActorExit ==
    /\ pc = "exit"
    /\ \E res \in Outcomes :
        /\ Call("Actor.exit", Undefined, res)
        /\ pending' = IF res = "ok" THEN pending ELSE "Actor.exit"
        /\ status' = IF res = "ok" THEN StatusAfterExit(pending) ELSE "failed"
    /\ pc' = "done"
    /\ UNCHANGED <<variant, input, cursor, sub, cfg, launched, logged, outVars>>

Next ==
    \/ ActorInit
    \/ GetInput
    \/ ResolveConfiguration
    \/ Launch
    \/ NewContext
    \/ NewPage
    \/ Navigate
    \/ WaitReady
    \/ Settle
    \/ Login
    \/ Theme
    \/ Timeframe
    \/ Indicators
    \/ HideUi
    \/ DeriveName
    \/ Screenshot
    \/ SetValue
    \/ GetPublicUrl
    \/ PushData
    \/ PushFallback
    \/ WriteResult
    \/ KeepOpen
    \/ LocalCatch
    \/ CloseBrowser
    \/ Completed
    \/ OuterCatch
    \/ ActorExit

Spec == Init /\ [][Next]_vars

-----------------------------------------------------------------------------
(* Reading the log of calls *)

Count(op) == Cardinality({i \in DOMAIN calls : calls[i].op = op})
Rejected(op) == \E i \in DOMAIN calls : calls[i].op = op /\ calls[i].res = "threw"
Returned(op) == \E i \in DOMAIN calls : calls[i].op = op /\ calls[i].res = "ok"
IsPushData(c) == c.op = "Actor.pushData"
PushCalls == SelectSeq(calls, IsPushData)
Contains(s, part) ==
    \E i \in 1..(Len(s) - Len(part) + 1) : SubSeq(s, i, i + Len(part) - 1) = part
Ended == pc = "done"

-----------------------------------------------------------------------------
(* C1 *)

\* C1: in every run in which chromium.launch succeeded, browser.close is
\* invoked exactly once before the run ends, whichever later step fails
C1_BrowserClosedExactlyOnce ==
    /\ Count("browser.close") <= 1
    /\ (Ended /\ launched) => Count("browser.close") = 1

-----------------------------------------------------------------------------
(* C2 *)

\* C2: Actor.setValue and Actor.pushData are invoked only after
\* page.screenshot has returned; when page.screenshot throws, the error
\* propagates and neither a blob nor a metadata record is written
C2_PersistOnlyAfterCapture ==
    /\ \A i \in DOMAIN calls :
        calls[i].op \in {"Actor.setValue", "Actor.pushData", "writeFileSync"} =>
            \E j \in 1..(i - 1) :
                calls[j].op = "page.screenshot" /\ calls[j].res = "ok"
    /\ Rejected("page.screenshot") =>
        /\ pending # "none"
        /\ store = {}
        /\ dataset = <<>>
        /\ Count("Actor.setValue") = 0
        /\ Count("Actor.pushData") = 0

\* a run of main.js that ended after page.screenshot threw
C2_Witness ==
    Ended /\ variant \in MainVariants /\ Rejected("page.screenshot")

-----------------------------------------------------------------------------
(* C3 *)

\* the fatal errors the claim lists
FatalSources ==
    {"chromium.launch", "browser.newContext", "context.newPage", "page.goto",
     "page.screenshot", "Actor.pushData"}

\* C3: whenever a fatal error propagates out of the pipeline, the error is
\* logged, teardown runs, and the run ends failed, not succeeded: Actor.exit
\* in the outer finally does not turn it into a normal completion
C3_FatalErrorFailsRun ==
    (Ended /\ variant \in MainVariants /\ pending \in FatalSources) =>
        /\ "Failed to capture chart" \in logged
        /\ Count("Actor.exit") = 1
        /\ launched => Count("browser.close") = 1
        /\ status = "failed"

-----------------------------------------------------------------------------
(* C4 *)

\* the fields the fallback record replaces
Replaced == {"screenshotBase64", "screenshotDataUrl"}

\* rec is orig with the two encodings replaced by strings that hold their lengths
IsFallbackOf(rec, orig) ==
    /\ DOMAIN rec = DOMAIN orig
    /\ \A k \in DOMAIN orig \ Replaced : rec[k] = orig[k]
    /\ \A k \in Replaced :
        /\ rec[k].t = "string"
        /\ rec[k] # orig[k]
        /\ Contains(rec[k].v, Decimal(Len(orig[k].v)))

\* C4: when the first pushData fails there is exactly one further attempt,
\* with the placeholder record; if it succeeds the run completes normally, if
\* it fails the error propagates; in every variant of main.js
C4_FallbackInEveryVariant ==
    (Ended /\ variant \in MainVariants /\ Len(PushCalls) >= 1
        /\ PushCalls[1].res = "threw") =>
        /\ Len(PushCalls) = 2
        /\ IsFallbackOf(PushCalls[2].arg.v, PushCalls[1].arg.v)
        /\ PushCalls[2].res = "ok" =>
            (pending # "Actor.pushData" /\ dataset = <<PushCalls[2].arg.v>>)
        /\ PushCalls[2].res = "threw" => (pending # "none" /\ dataset = <<>>)

-----------------------------------------------------------------------------
(* C5 *)

\* C5: a run that completes without a fatal error has appended exactly one
\* record; no run appends two; pushData is attempted at most twice and
\* navigation, screenshot, blob write and locator lookup at most once
\* (the log only grows, so a call is counted when it is the latest one)
C5_OneRecordPerRun ==
    /\ (Ended /\ pending = "none") => Len(dataset) = 1
    /\ Len(dataset) <= 1
    /\ calls # <<>> =>
        LET op == calls[Len(calls)].op
        IN  /\ op = "Actor.pushData" => Count(op) <= 2
            /\ op \in {"page.goto", "page.screenshot", "Actor.setValue",
                        "Actor.getPublicUrl", "writeFileSync"} => Count(op) = 1

\* a run that ended well on its second pushData
C5_Witness ==
    Ended /\ pending = "none" /\ Len(PushCalls) = 2 /\ Len(dataset) = 1

-----------------------------------------------------------------------------
(* C6: the Configuration Resolver on every small input mapping *)

\* every name an input may carry that some variant reads
ConfigKeys == CommonFields \cup {"loginUsername", "loginPassword", "login"}

\* values an input may carry, whatever the field: null, the falsy values, a string
SuppliedValues == {Null, Str(<<>>), Num(0), Bool(FALSE), Str(<<"x">>)}

\* at most this many fields are supplied
MaxSupplied == 2

\* no input, and every mapping of at most MaxSupplied fields to those values
ConfigInputs ==
    {Null} \cup
    UNION {{Obj(f) : f \in [S -> SuppliedValues]} :
            S \in {T \in SUBSET ConfigKeys : Cardinality(T) <= MaxSupplied}}

InitConfig == Start /\ input \in ConfigInputs
NextConfig == ActorInit \/ GetInput \/ ResolveConfiguration
SpecConfig == InitConfig /\ [][NextConfig]_vars

\* the Default column of the README's Input Schema table; the login object
\* of the second variant is the credentials, "none" like them
DocumentedDefaults ==
    [k \in ConfigKeys |->
        CASE k = "symbol" ->
                Str(<<"B", "I", "N", "A", "N", "C", "E", ":",
                      "B", "T", "C", "U", "S", "D", "T">>)
          [] k = "interval" -> Str(<<"1", "h">>)
          [] k = "indicators" ->
                List(<<Str(<<"R", "S", "I">>),
                       Str(<<"E", "M", "A", " ", "2", "0">>),
                       Str(<<"E", "M", "A", " ", "5", "0">>)>>)
          [] k = "theme" -> Str(<<"d", "a", "r", "k">>)
          [] k = "width" -> Num(1280)
          [] k = "height" -> Num(720)
          [] k = "hideUi" -> Bool(TRUE)
          [] k \in {"loginUsername", "loginPassword", "login", "outputFileName"} -> Null]

\* C6: once the input is destructured, every field absent from it holds its
\* documented default and every field present holds exactly the supplied
\* value, falsy and null values included
C6_DefaultsForAbsentFields ==
    pc = "launch" =>
        /\ DOMAIN cfg = Fields(variant)
        /\ \A k \in Fields(variant) :
            cfg[k] = IF k \in DOMAIN input.v THEN input.v[k] ELSE DocumentedDefaults[k]

\* an input that supplies false and null, destructured
C6_Witness ==
    /\ pc = "launch"
    /\ DOMAIN input.v = {"hideUi", "outputFileName"}
    /\ input.v["hideUi"] = Bool(FALSE)
    /\ input.v["outputFileName"] = Null

-----------------------------------------------------------------------------
(* C7 *)

\* the calls of the five best-effort steps
InteractionOps ==
    Range(LoginSteps) \cup Range(IndicatorSteps)
        \cup {"theme.press", "timeframe.press", "page.evaluate"}

\* the positions of the interaction phase, from the readiness wait on
InteractionPcs ==
    {"waitReady", "settle1", "login", "theme", "timeframe", "settle2",
     "indicators", "settle3", "hideUi"}

\* every call that rejected so far belongs to one of the five steps
OnlyInteractionRejections ==
    \A i \in DOMAIN calls : calls[i].res = "threw" => calls[i].op \in InteractionOps

\* each step the configuration asks for has been started
RequestedStepsAttempted ==
    /\ LoginRequested(variant, cfg) => Count("signInLookup") = 1
    /\ cfg["theme"] = Light => Count("theme.press") = 1
    /\ cfg["interval"].v # <<>> => Count("timeframe.press") >= 1
    /\ Count("indicator.open") = Len(cfg["indicators"].v)
    /\ Truthy(cfg["hideUi"]) => Count("page.evaluate") = 1

\* C7: whatever fails in the login, theme, timeframe, indicator and
\* UI-suppression steps, no error propagates: every requested step is still
\* attempted and page.screenshot is attempted afterwards
C7_InteractionFailuresSwallowed ==
    (OnlyInteractionRejections /\ Returned("page.goto")) =>
        /\ pending = "none"
        /\ pc \notin InteractionPcs => RequestedStepsAttempted
        /\ pc \notin InteractionPcs \cup {"deriveName", "screenshot"} =>
            Count("page.screenshot") = 1

\* the login and an indicator both failed, and the screenshot was taken
C7_Witness ==
    /\ Rejected("signInClick")
    /\ Rejected("indicator.type")
    /\ Returned("page.screenshot")

-----------------------------------------------------------------------------
(* C8 *)

IsOpen(c) == c.op = "indicator.open"
Opens == SelectSeq(calls, IsOpen)

\* the wait that follows the indicator loop has been issued
LoopOver ==
    \E i \in DOMAIN calls :
        calls[i].op = "page.waitForTimeout" /\ calls[i].arg = Num(3000)

\* the list the input asks for
RequestedIndicators ==
    IF "indicators" \in DOMAIN input.v THEN input.v["indicators"]
    ELSE DocumentedDefaults["indicators"]

\* C8: for a list of n indicators the loop starts exactly n insertions, one
\* open-search shortcut each, in list order, whichever of them fail, and the
\* record emitted lists the same indicators in the same order
C8_OneAttemptPerIndicator ==
    /\ LoopOver =>
        /\ Len(Opens) = Len(RequestedIndicators.v)
        /\ \A i \in DOMAIN Opens : Opens[i].about = i
    /\ \A i \in DOMAIN calls :
        calls[i].op = "indicator.type" =>
            calls[i].arg = RequestedIndicators.v[calls[i].about]
    /\ \A i \in DOMAIN dataset : dataset[i].indicators = RequestedIndicators

\* three indicators, the first insertion failed at once, a record was emitted
C8_Witness ==
    /\ Len(Opens) = 3
    /\ Opens[1].res = "threw"
    /\ Len(dataset) = 1

-----------------------------------------------------------------------------
(* C9: the timeframe step on every short interval string *)

\* the characters of the interval strings tried: digits, letters of both
\* cases and a character that is neither
IntervalAlphabet == {"1", "4", "h", "D", "m", "-"}

\* the longest interval string tried
MaxIntervalLen == 3

IntervalStrings == UNION {[1..n -> IntervalAlphabet] : n \in 0..MaxIntervalLen}

InitTimeframe ==
    /\ Start
    /\ input \in {With(EmptyObj, "interval", Str(s)) : s \in IntervalStrings}

NextTimeframe ==
    \/ ActorInit
    \/ GetInput
    \/ ResolveConfiguration
    \/ Launch
    \/ NewContext
    \/ NewPage
    \/ Navigate
    \/ WaitReady
    \/ Settle
    \/ Login
    \/ Theme
    \/ Timeframe

SpecTimeframe == InitTimeframe /\ [][NextTimeframe]_vars

IsPress(c) == c.op = "timeframe.press"
Presses == SelectSeq(calls, IsPress)
PressedKeys == [i \in DOMAIN Presses |-> Presses[i].arg.v]

\* the wait that follows the timeframe step has been issued
TimeframeOver ==
    \E i \in DOMAIN calls :
        calls[i].op = "page.waitForTimeout" /\ calls[i].arg = Num(2000)

RECURSIVE TakeWhile(_, _)
TakeWhile(s, set) ==
    IF s = <<>> \/ Head(s) \notin set THEN <<>>
    ELSE <<Head(s)>> \o TakeWhile(Tail(s), set)

RECURSIVE TakeUntil(_, _)
TakeUntil(s, set) ==
    IF s = <<>> \/ Head(s) \in set THEN <<>>
    ELSE <<Head(s)>> \o TakeUntil(Tail(s), set)

Reverse(s) == [i \in DOMAIN s |-> s[Len(s) + 1 - i]]

\* one key per character
OneEach(s) == [i \in DOMAIN s |-> <<s[i]>>]

\* a key name, unless it is empty
OneKey(name) == IF name = <<>> THEN <<>> ELSE <<name>>

\* lower case, letter by letter of the strings tried
Lowered(s) ==
    [i \in DOMAIN s |-> CASE s[i] = "D" -> "d" [] OTHER -> s[i]]

\* the keys the claim names: the leading digits one by one, then the
\* trailing letters, lower-cased, as one key
LeadingRunThenTrailingCode(s) ==
    OneEach(TakeWhile(s, Digits))
        \o OneKey(Lowered(Reverse(TakeWhile(Reverse(s), Letters))))

\* the keys of the first run of digits wherever it stands, then all the
\* rest of the string, lower-cased, as one key
FirstRunThenRest(s) ==
    LET before == TakeUntil(s, Digits)
        from   == SubSeq(s, Len(before) + 1, Len(s))
        run    == TakeWhile(from, Digits)
        after  == SubSeq(from, Len(run) + 1, Len(from))
    IN  OneEach(run) \o OneKey(Lowered(before \o after))

IsPrefix(s, t) == Len(s) <= Len(t) /\ s = SubSeq(t, 1, Len(s))

\* C9 as stated: for every interval string the step presses one key per
\* digit of the leading numeric run, in order, then exactly one key for the
\* lower-cased trailing alphabetic code, and none for any other part
C9_LeadingRunThenTrailingCode ==
    (TimeframeOver /\ ~Rejected("timeframe.press")) =>
        PressedKeys = LeadingRunThenTrailingCode(input.v["interval"].v)

\* C9 amended: the step presses one key per digit of the first run of digits
\* of the string, wherever it stands, then one key named by all the rest of
\* the string lower-cased, if there is a rest; a rejected press abandons the
\* presses after it.  So 4h gives 4, h; 1D gives 1, d; 1m gives 1, m.
C9_FirstRunThenRest ==
    LET s == input.v["interval"].v
    IN  /\ \A i \in DOMAIN Presses : Presses[i].res = "threw" => i = Len(Presses)
        /\ calls # <<>> => IsPrefix(PressedKeys, FirstRunThenRest(s))
        /\ (TimeframeOver /\ ~Rejected("timeframe.press")) =>
            /\ PressedKeys = FirstRunThenRest(s)
            /\ s = <<"4", "h">> => PressedKeys = <<(<<"4">>), (<<"h">>)>>
            /\ s = <<"1", "D">> => PressedKeys = <<(<<"1">>), (<<"d">>)>>
            /\ s = <<"1", "m">> => PressedKeys = <<(<<"1">>), (<<"m">>)>>

\* 1D was typed as 1 and d
C9_Witness ==
    /\ TimeframeOver
    /\ input.v["interval"] = Str(<<"1", "D">>)
    /\ Len(Presses) = 2
    /\ ~Rejected("timeframe.press")

-----------------------------------------------------------------------------
(* C10 *)

NameSupplied == "outputFileName" \in DOMAIN input.v

NameChars == Letters \cup Digits \cup {"_"}

\* the symbol with every character outside [A-Za-z0-9_] replaced by "_"
Sanitised(sym) == [i \in DOMAIN sym |-> IF sym[i] \in NameChars THEN sym[i] ELSE "_"]

\* the capture time to whole seconds, as in chart_..._2024-01-01T12-00-00
WholeSeconds(iso) ==
    [i \in 1..19 |-> IF iso[i] = ":" THEN "-" ELSE iso[i]]

RequestedSymbol ==
    IF "symbol" \in DOMAIN input.v THEN input.v["symbol"]
    ELSE DocumentedDefaults["symbol"]

GeneratedName(iso) ==
    Str(<<"c", "h", "a", "r", "t", "_">> \o Sanitised(RequestedSymbol.v)
            \o <<"_">> \o WholeSeconds(iso))

IsSetValue(c) == c.op = "Actor.setValue"

\* C10 as stated: the output name is the supplied outputFileName whenever one
\* is supplied, else chart_<S>_<timestamp>, and the blob is stored under a
\* key equal to the output name
C10_SuppliedNameIsKey ==
    /\ pc = "screenshot" =>
        fileName = IF NameSupplied THEN input.v["outputFileName"]
                   ELSE GeneratedName(Timestamps[clock])
    /\ \A i \in DOMAIN calls : IsSetValue(calls[i]) => calls[i].arg = fileName

\* C10 amended: the output name is the supplied outputFileName whenever one
\* is supplied and is not empty, else chart_<S>_<timestamp>, and the blob is
\* stored under the key made of the output name followed by ".png"
C10_NonEmptyNameAndPngKey ==
    /\ pc = "screenshot" =>
        fileName = IF NameSupplied /\ input.v["outputFileName"] # Str(<<>>)
                   THEN input.v["outputFileName"]
                   ELSE GeneratedName(Timestamps[clock])
    /\ \A i \in DOMAIN calls :
        IsSetValue(calls[i]) =>
            calls[i].arg = Str(fileName.v \o <<".", "p", "n", "g">>)
    /\ variant \in MainVariants =>
        \A e \in store :
            e = <<Str(fileName.v \o <<".", "p", "n", "g">>), screenshot>>

\* a blob stored under the name generated for the symbol a:_Z9
C10_Witness ==
    /\ variant \in MainVariants
    /\ Returned("Actor.setValue")
    /\ store # {}
    /\ ~NameSupplied
    /\ RequestedSymbol = Str(<<"a", ":", "_", "Z", "9">>)

-----------------------------------------------------------------------------
(* C11 *)

\* the value of a base64 digit; the padding character counts as 0
SixBits(ch) ==
    IF ch = "=" THEN 0 ELSE CHOOSE n \in 0..63 : Base64Alphabet[n + 1] = ch

\* s is a base64 text: whole groups of four digits, padded at the very end only
IsBase64(s) ==
    /\ Len(s) % 4 = 0
    /\ \A i \in DOMAIN s :
        \/ s[i] \in Range(Base64Alphabet)
        \/ /\ s[i] = "="
           /\ i >= Len(s) - 1
           /\ s[Len(s)] = "="

RECURSIVE DecodeGroups(_)
DecodeGroups(s) ==
    IF s = <<>> THEN <<>>
    ELSE LET n == SixBits(s[1]) * 262144 + SixBits(s[2]) * 4096
                    + SixBits(s[3]) * 64 + SixBits(s[4])
             bytes == <<n \div 65536, (n \div 256) % 256, n % 256>>
             kept == IF s[3] = "=" THEN 1 ELSE IF s[4] = "=" THEN 2 ELSE 3
         IN  SubSeq(bytes, 1, kept) \o DecodeGroups(SubSeq(s, 5, Len(s)))

\* what a base64 decoder yields for s; <<-1>> when s is no base64 text
Decode(s) == IF IsBase64(s) THEN DecodeGroups(s) ELSE <<-1>>

\* C11 as stated: whenever the capture succeeded and a record was appended,
\* decoding the record's screenshotBase64 gives back the captured bytes
C11_RecordDecodesToBytes ==
    variant \in MainVariants =>
        \A i \in DOMAIN dataset :
            Decode(dataset[i].screenshotBase64.v) = screenshot

\* C11 amended: the record appended by the first pushData attempt decodes to
\* the captured bytes; the record appended by the fallback attempt holds a
\* placeholder in place of the encoding, which is no base64 text at all
C11_FullRecordDecodesToBytes ==
    variant \in MainVariants =>
        \A i \in DOMAIN dataset :
            IF Len(PushCalls) = 1
            THEN Decode(dataset[i].screenshotBase64.v) = screenshot
            ELSE Decode(dataset[i].screenshotBase64.v) = <<-1>>

\* a two-byte capture, whose encoding is padded, appended at the first attempt
C11_Witness ==
    /\ variant \in MainVariants
    /\ Len(dataset) = 1
    /\ Len(PushCalls) = 1
    /\ screenshot = <<137, 80>>

-----------------------------------------------------------------------------
(* C12 *)

\* the readiness wait is the only call that rejected so far
OnlyReadinessRejected ==
    /\ Rejected("page.waitForSelector")
    /\ \A i \in DOMAIN calls :
        calls[i].res = "threw" => calls[i].op = "page.waitForSelector"

\* C12: in every variant a timeout of the readiness wait after a successful
\* navigation is not fatal: nothing propagates, the interaction steps follow
\* and the screenshot is attempted
C12_ReadinessTimeoutNonFatal ==
    OnlyReadinessRejected =>
        /\ pending = "none"
        /\ pc \notin {"close", "catch", "outerCatch", "exit", "done"}
            \/ Count("page.screenshot") = 1

-----------------------------------------------------------------------------
(* C13 *)

PersistOps == {"Actor.setValue", "Actor.getPublicUrl"}

\* the blob write or the locator lookup rejected, and nothing else did
OnlyPersistRejected ==
    /\ \E op \in PersistOps : Rejected(op)
    /\ \A i \in DOMAIN calls : calls[i].res = "threw" => calls[i].op \in PersistOps

\* C13: in every variant of main.js a failed Actor.setValue or
\* Actor.getPublicUrl is not fatal: the record is still appended, with
\* screenshotUrl '' when the lookup failed
C13_PersistFailuresNonFatal ==
    (variant \in MainVariants /\ OnlyPersistRejected) =>
        /\ pending = "none"
        /\ Ended =>
            /\ Len(dataset) = 1
            /\ Rejected("Actor.getPublicUrl") => dataset[1].screenshotUrl = Str(<<>>)

-----------------------------------------------------------------------------
(* C14 *)

\* C14: when Actor.getInput() yields no input at all, every field is taken
\* as absent: the run goes on to launch the browser with the full default
\* configuration instead of failing
C14_NoInputMeansDefaults ==
    (variant \in MainVariants /\ input = Null /\ Returned("Actor.getInput")
        /\ pc # "destructure") =>
        /\ pending = "none"
        /\ pc = "launch"
        /\ \A k \in Fields(variant) : cfg[k] = DocumentedDefaults[k]

-----------------------------------------------------------------------------
(* C15 *)

\* the calls of the teardown
TeardownOps == {"browser.close", "Actor.exit"}

\* C15: a failed page.goto is fatal: no keystroke, no screenshot, no blob
\* write and no metadata append follows it, and the browser is closed before
\* the error leaves the pipeline
C15_NavigationFailureFatal ==
    Rejected("page.goto") =>
        /\ pending # "none"
        /\ \A i, j \in DOMAIN calls :
            (calls[i].op = "page.goto" /\ i < j) => calls[j].op \in TeardownOps
        /\ store = {} /\ dataset = <<>>
        /\ pc \in {"outerCatch", "exit", "done"} => Count("browser.close") = 1

\* the navigation failed, the browser was closed and the run is over
C15_Witness ==
    /\ Ended
    /\ Rejected("page.goto")
    /\ Count("browser.close") = 1

-----------------------------------------------------------------------------
(* C16 *)

LoginOps == Range(LoginSteps)
IndicatorOps == Range(IndicatorSteps)

\* the stage of a call in the order the claim fixes; 0 for the calls it does
\* not name (fixed delays, platform session, teardown)
Stage(op) ==
    CASE op \in {"chromium.launch", "browser.newContext", "context.newPage"} -> 1
      [] op = "page.goto" -> 2
      [] op = "page.waitForSelector" -> 3
      [] op \in LoginOps -> 4
      [] op = "theme.press" -> 5
      [] op = "timeframe.press" -> 6
      [] op \in IndicatorOps -> 7
      [] op = "page.evaluate" -> 8
      [] op = "page.screenshot" -> 9
      [] op = "Actor.setValue" -> 10
      [] op = "Actor.getPublicUrl" -> 11
      [] op \in {"Actor.pushData", "writeFileSync"} -> 12
      [] OTHER -> 0

IsStaged(c) == Stage(c.op) # 0

\* the stages of the calls issued so far, in the order of the calls
Stages ==
    LET staged == SelectSeq(calls, IsStaged)
    IN  [i \in DOMAIN staged |-> Stage(staged[i].op)]

\* C16: the visible actions of a run occur in the fixed order launch,
\* navigation, readiness wait, login, theme toggle, timeframe keys, indicator
\* insertions, UI suppression, screenshot, blob write, locator lookup,
\* metadata append: no action of a later stage precedes one of an earlier
\* stage, and the optional stages act only when requested
\* (the log only grows, so it is enough that the latest call of every state
\* comes after all the calls before it)
C16_StagesInFixedOrder ==
    calls # <<>> =>
        LET latest == Stage(calls[Len(calls)].op)
        IN  latest # 0 =>
                /\ \A i \in 1..(Len(calls) - 1) : Stage(calls[i].op) <= latest
                /\ latest = 4 => LoginRequested(variant, cfg)
                /\ latest = 5 => cfg["theme"] = Light
                /\ latest = 8 => Truthy(cfg["hideUi"])

\* a run that went through every stage, the optional ones included
C16_Witness ==
    /\ Ended
    /\ Range(Stages) = 1..12

-----------------------------------------------------------------------------
(* C17 *)

\* the input field k, undefined when the input does not carry it
Given(k) ==
    IF input.t = "object" /\ k \in DOMAIN input.v THEN input.v[k] ELSE Undefined

\* the input carries a username and a password, both non-empty
BothCredentials ==
    IF variant = "main1"
    THEN Truthy(Given("loginUsername")) /\ Truthy(Given("loginPassword"))
    ELSE /\ Given("login").t = "object"
         /\ Truthy(Get(Given("login"), "username"))
         /\ Truthy(Get(Given("login"), "password"))

Issued(op) == \E i \in DOMAIN calls : calls[i].op = op

\* the login calls that come after the click on the sign-in affordance
AfterSignIn ==
    {"usernameWait", "usernameFill", "passwordWait", "passwordFill",
     "submitLookup", "submitClick"}

\* C17: login calls are issued only when both a username and a password are
\* configured; no field is filled and no submit is clicked unless the sign-in
\* affordance was found and clicked; the password field is filled only after
\* the username field was found and filled
\* (the log only grows, so each login call is judged when it is the latest)
C17_LoginGated ==
    calls # <<>> =>
        LET op == calls[Len(calls)].op
        IN  /\ op \in LoginOps => BothCredentials
            /\ op \in AfterSignIn =>
                Returned("signInLookup") /\ Returned("signInClick")
            /\ op = "passwordFill" =>
                /\ Returned("usernameWait") /\ Returned("usernameFill")
                /\ Returned("passwordWait")
            /\ op = "submitClick" =>
                Returned("passwordFill") /\ Returned("submitLookup")

\* both fields were filled and the form was submitted
C17_Witness ==
    /\ BothCredentials
    /\ Returned("passwordFill")
    /\ Returned("submitClick")

-----------------------------------------------------------------------------
(* C18 *)

\* a call of op was issued before a call of later
Before(op, later) ==
    \E i, j \in DOMAIN calls : i < j /\ calls[i].op = op /\ calls[j].op = later

\* C18: once Actor.init has returned, Actor.exit is invoked exactly once in
\* every run, whatever fails, and where the browser was launched never
\* before browser.close has been invoked
C18_ExitOnceAfterTeardown ==
    variant \in MainVariants =>
        /\ Count("Actor.exit") <= 1
        /\ (Ended /\ Returned("Actor.init")) => Count("Actor.exit") = 1
        /\ (launched /\ Issued("Actor.exit")) => Before("browser.close", "Actor.exit")

-----------------------------------------------------------------------------
(* C19 *)

\* call number i is the call op for indicator number k, and it returned
Succeeded(i, op, k) ==
    /\ i \in DOMAIN calls
    /\ calls[i].op = op /\ calls[i].about = k /\ calls[i].res = "ok"

\* call number i ended the insertion of indicator number k: its accept key
\* was pressed, or one of its calls was rejected
Finished(i, k) ==
    /\ i \in DOMAIN calls
    /\ calls[i].op \in IndicatorOps /\ calls[i].about = k
    /\ calls[i].op = "indicator.accept" \/ calls[i].res = "threw"

\* C19: the calls of one indicator are issued in the order open-search, type,
\* accept, each only if the one before it succeeded for that indicator; the
\* accept key is never pressed after a failed open-search or typing, and the
\* next keyboard action after a failure is the next indicator's open-search
\* (the log only grows, so it is enough to look at the latest call of every
\* state and at the call just before it)
C19_IndicatorSubStepsInOrder ==
    calls # <<>> =>
        LET n == Len(calls)
            k == calls[n].about
        IN  /\ calls[n].op = "indicator.type" => Succeeded(n - 1, "indicator.open", k)
            /\ calls[n].op = "indicator.accept" => Succeeded(n - 1, "indicator.type", k)
            /\ calls[n].op = "indicator.open" =>
                IF k = 1 THEN calls[n - 1].op \notin IndicatorOps
                ELSE Finished(n - 1, k - 1)
            /\ (n > 1 /\ calls[n - 1].op \in IndicatorOps /\ calls[n - 1].res = "threw"
                    /\ calls[n - 1].about < Len(RequestedIndicators.v)) =>
                /\ calls[n].op = "indicator.open"
                /\ k = calls[n - 1].about + 1

\* typing the first indicator failed and the second one's search was opened
C19_Witness ==
    \E i \in DOMAIN calls :
        /\ calls[i].op = "indicator.type" /\ calls[i].about = 1
        /\ calls[i].res = "threw"
        /\ i < Len(calls)
        /\ calls[i + 1].op = "indicator.open" /\ calls[i + 1].about = 2

-----------------------------------------------------------------------------
(* C20 *)

\* C20: in every variant 'Chart capture completed successfully' is logged
\* only in runs in which no fatal error left the pipeline body: never where
\* the navigation, an uncaught readiness wait or the screenshot threw
C20_CompletedOnlyOnSuccess ==
    "Chart capture completed successfully" \in logged =>
        /\ pending \in {"none", "Actor.exit"}
        /\ ~Rejected("page.goto")
        /\ ~Rejected("page.screenshot")
        /\ variant # "main1" => ~Rejected("page.waitForSelector")

=============================================================================
